---- MODULE Spec2Model ----
(***************************************************************************)
(* Model of the Twitch UI test harness: the pytest session wiring of       *)
(* conftest.py (options, generated runs, driver / ui fixtures), the        *)
(* Browser factory of tools/ui/base/browser.py, the page action library of *)
(* tools/ui/base/base_page.py (explicit waits, boolean probes, child       *)
(* lookups, interactions) and the HomePage actions built on it.            *)
(*                                                                         *)
(* Three specifications:                                                   *)
(*   Spec        - the runs generated from the command line and the device *)
(*                 config file, each running the fixture protocol of       *)
(*                 conftest.py;                                            *)
(*   SpecFactory - the Browser factory called with any arguments;          *)
(*   SpecLib     - one call of a page action library operation or HomePage *)
(*                 action against a page whose elements come and go while  *)
(*                 the call polls.                                         *)
(***************************************************************************)
EXTENDS Integers, Sequences, FiniteSets, TLC

VARIABLES
    \* ---- Browser factory (browser.py) ----
    browser_calls,    \* number of browser_driver calls made to the factory alone
    browser_call,     \* the arguments of the latest of them
    browser_result,   \* how it ended: the handle returned or the exception raised
    browser_errors,   \* number of logging.error records written by the factory
    \* ---- command line and collection (conftest.py) ----
    options,          \* the command line: --device_name value, --is_local present
    devices_config,   \* config/devices_config.json: the device_name of each record
    params,           \* the device_name parameters of the generated test runs
    config_reads,     \* number of times the device config file was loaded
    collected,        \* pytest_generate_tests has run
    \* ---- session (conftest.py) ----
    pc,               \* per test: position in the fixture protocol
    driver_instance,  \* per test: the handle held by the driver fixture (0 = none)
    home_page,        \* per test: the handle wrapped by HomePage (0 = no page object)
    ui_ctx,           \* per test: the handle stored in UI.driver (0 = no UI object)
    outcome,          \* per test: "none" | "passed" | "failed" | "error"
    drivers,          \* sequence of driver handles produced by the Browser factory
    created,          \* per test: the handles the factory produced for it (history)
    body_reached,     \* per test: the test body was entered (history)
    \* ---- page action library (base_page.py) ----
    dom,              \* per locator of the call: what the page shows now (a level)
    call,             \* the library call in progress: operation and arguments
    prog,             \* the steps of the call still to run
    handler,          \* the try/except around the call's steps, if any
    elapsed,          \* time spent in the explicit wait in progress
    regs,             \* the values the call's steps produced so far
    result,           \* how the call ended
    log_errors,       \* number of logging.error records written by the call
    lookups,          \* number of polls of the driver made by the call
    interactions,     \* the interactions the call performed on the driver, in order
    clock,            \* time elapsed since the call began
    held,             \* a wait condition of the call held at one of its polls (history)
    existed,          \* a polled target was in the DOM at one of the polls (history)
    timed_out,        \* a WebDriverWait of the call raised TimeoutException (history)
    waited            \* the waits of the call that succeeded, in order (history)

factoryVars == <<browser_calls, browser_call, browser_result, browser_errors>>
configVars == <<options, devices_config, params, config_reads, collected>>
sessionVars == <<pc, driver_instance, home_page, ui_ctx, outcome, drivers, created,
                 body_reached, factoryVars, configVars>>
libVars == <<dom, call, prog, handler, elapsed, regs, result, log_errors, lookups,
             interactions, clock, held, existed, timed_out, waited>>
vars == <<sessionVars, libVars>>

-----------------------------------------------------------------------------
(* Bounds *)

NumTests == 2       \* parametrized tests (one per device record)

MaxCalls == 2       \* browser_driver calls made to the factory alone

Tests == 1..NumTests

NoHandle == 0

-----------------------------------------------------------------------------
(***************************************************************************)
(* Browser factory (tools/ui/base/browser.py)                              *)
(***************************************************************************)

BrowserNames == {"chrome", "Chrome", "firefox"}

\* str.lower() on the browser names of the model
Lower(name) == IF name = "Chrome" THEN "chrome" ELSE name

\* None where a device name (a str) is expected
NoneStr == "<None>"

DeviceNames == {"iPhone X", "Galaxy S5"}

\* what a device_name can be: no value, the empty string, a name
DeviceArgs == {NoneStr, ""} \cup DeviceNames

\* if device_name:
Truthy(name) == name \notin {NoneStr, ""}

\* A factory that hands out the one driver it already has instead of a new one.
Browser_chrome_Shared(is_headless, device_name, provisioned) ==
    IF ~provisioned
    THEN [raised |-> "DriverProvisioningError", handle |-> NoHandle, drivers |-> drivers,
          logged |-> 0]
    ELSE IF Len(drivers) > 0
         THEN [raised |-> "none", handle |-> 1, drivers |-> drivers, logged |-> 0]
         ELSE [raised |-> "none", handle |-> 1, logged |-> 0,
               drivers |-> <<[emulation |-> IF Truthy(device_name) THEN device_name
                                                                     ELSE NoneStr,
                              headless |-> is_headless,
                              open |-> TRUE, quits |-> 0, loaded |-> FALSE]>>]

\* Browser.chrome: a new Chrome driver with the mobileEmulation option set to
\* device_name when device_name is truthy, and --headless when is_headless.
\* ChromeDriverManager().install() / webdriver.Chrome may fail (provisioned =
\* FALSE): the failure propagates and no handle exists.
Browser_chrome(is_headless, device_name, provisioned) ==
    IF ~provisioned
    THEN [raised |-> "DriverProvisioningError", handle |-> NoHandle, drivers |-> drivers,
          logged |-> 0]
    ELSE [raised |-> "none",
          handle |-> Len(drivers) + 1,
          logged |-> 0,
          drivers |-> Append(drivers,
                        [emulation |-> IF Truthy(device_name) THEN device_name ELSE NoneStr,
                         headless |-> is_headless,
                         open |-> TRUE, quits |-> 0, loaded |-> FALSE])]

\* Browser.browser_driver creating a Chrome driver whatever the name is
Browser_browser_driver_AnyName(browser_name, is_headless, device_name, provisioned) ==
    Browser_chrome(is_headless, device_name, provisioned)

\* Browser.browser_driver: logged counts the logging.error records
Browser_browser_driver(browser_name, is_headless, device_name, provisioned) ==
    IF Lower(browser_name) = "chrome"
    THEN Browser_chrome(is_headless, device_name, provisioned)
    ELSE [raised |-> "UnsupportedBrowser", handle |-> NoHandle, drivers |-> drivers,
          logged |-> 1]

\* One call of the factory by any caller
browser_driver ==
    /\ browser_calls < MaxCalls
    /\ browser_calls' = browser_calls + 1
    /\ \E browser_name \in BrowserNames, is_headless \in BOOLEAN,
          device_name \in DeviceArgs, provisioned \in BOOLEAN :
         LET r == Browser_browser_driver(browser_name, is_headless, device_name, provisioned)
         IN  /\ browser_call' = [browser_name |-> browser_name, is_headless |-> is_headless,
                                 device_name |-> device_name]
             /\ browser_result' = [raised |-> r.raised, handle |-> r.handle]
             /\ browser_errors' = browser_errors + r.logged
             /\ drivers' = r.drivers
    /\ UNCHANGED <<pc, driver_instance, home_page, ui_ctx, outcome, created, body_reached>>
    /\ UNCHANGED configVars
    /\ UNCHANGED libVars

-----------------------------------------------------------------------------
(***************************************************************************)
(* Session fixtures (conftest.py)                                          *)
(***************************************************************************)

\* store_true as if its default were False: the value is the flag's presence
StoreTrue_DefaultFalse(present, default) == present

\* action="store_true": True when the flag is on the command line, the default
\* otherwise
StoreTrue(present, default) == IF present THEN TRUE ELSE default

\* action="store": the value on the command line, the default without one
Store(value, default) == IF value = NoneStr THEN default ELSE value

\* request.config.getoption("--is_local"): store_true with default=True
is_local == StoreTrue(options.is_local, TRUE)

\* metafunc.getoption("--device_name"): store with default=None
option_device_name == Store(options.device_name, NoneStr)

\* is_headless=is_local, the inversion dropped
is_headless_NotInverted == is_local

\* is_headless=not is_local
is_headless == ~is_local

\* get_devices_list reading the config file whatever the command line says
get_devices_list_AlwaysConfig ==
    [devices |-> devices_config, reads |-> 1]

\* get_devices_list: the device of the command line when there is one, else the
\* device_name of each record of the config file (load_devices_from_json)
get_devices_list ==
    IF Truthy(option_device_name)
    THEN [devices |-> <<option_device_name>>, reads |-> 0]
    ELSE [devices |-> devices_config, reads |-> 1]

\* pytest_generate_tests: one run of the test per device of get_devices_list
pytest_generate_tests ==
    /\ ~collected
    /\ collected' = TRUE
    /\ params' = get_devices_list.devices
    /\ config_reads' = config_reads + get_devices_list.reads
    /\ UNCHANGED <<options, devices_config>>
    /\ UNCHANGED <<pc, driver_instance, home_page, ui_ctx, outcome, drivers, created,
                   body_reached>>
    /\ UNCHANGED factoryVars
    /\ UNCHANGED libVars

\* the runs generated
Runs == 1..Len(params)

\* device_name fixture: the parameter of the run
device_name(t) == params[t]

\* driver.quit()
Quit(ds, h) == [ds EXCEPT ![h].open = FALSE, ![h].quits = @ + 1]

\* driver fixture, up to its yield: create the driver, navigate to the url.
\* A failure before the yield ends the fixture's setup: the test errors and the
\* code after the yield is never run.
driver_setup(t) ==
    /\ collected
    /\ t \in Runs
    /\ pc[t] = "start"
    /\ \E provisioned \in BOOLEAN, nav_ok \in BOOLEAN :
         LET r == Browser_browser_driver("chrome", is_headless, device_name(t), provisioned)
         IN  IF r.raised # "none"
             THEN /\ pc' = [pc EXCEPT ![t] = "done"]
                  /\ outcome' = [outcome EXCEPT ![t] = "error"]
                  /\ UNCHANGED <<driver_instance, drivers, created>>
             ELSE /\ created' = [created EXCEPT ![t] = @ \cup {r.handle}]
                  /\ IF nav_ok
                     THEN /\ drivers' = [r.drivers EXCEPT ![r.handle].loaded = TRUE]
                          /\ driver_instance' = [driver_instance EXCEPT ![t] = r.handle]
                          /\ pc' = [pc EXCEPT ![t] = "driver_yielded"]
                          /\ UNCHANGED outcome
                     ELSE /\ drivers' = r.drivers
                          /\ pc' = [pc EXCEPT ![t] = "done"]
                          /\ outcome' = [outcome EXCEPT ![t] = "error"]
                          /\ UNCHANGED driver_instance
    /\ UNCHANGED <<home_page, ui_ctx, body_reached>>
    /\ UNCHANGED <<factoryVars, configVars>>
    /\ UNCHANGED libVars

\* ui fixture: HomePage(driver), then UI(home_page, ..., driver=driver).
\* A failure while constructing either ends the setup; the driver fixture has
\* yielded, so its teardown is due.
ui(t) ==
    /\ pc[t] = "driver_yielded"
    /\ \E page_ok \in BOOLEAN, ctx_ok \in BOOLEAN :
         /\ home_page' = [home_page EXCEPT ![t] = IF page_ok THEN driver_instance[t] ELSE @]
         /\ ui_ctx' = [ui_ctx EXCEPT ![t] = IF page_ok /\ ctx_ok THEN driver_instance[t] ELSE @]
         /\ IF page_ok /\ ctx_ok
            THEN /\ pc' = [pc EXCEPT ![t] = "ui_ready"]
                 /\ UNCHANGED outcome
            ELSE /\ pc' = [pc EXCEPT ![t] = "teardown"]
                 /\ outcome' = [outcome EXCEPT ![t] = "error"]
    /\ UNCHANGED <<driver_instance, drivers, created, body_reached>>
    /\ UNCHANGED <<factoryVars, configVars>>
    /\ UNCHANGED libVars

\* TestTwitchSearch.setup (autouse): keeps ui and ui.home_page; the body follows.
setup(t) ==
    /\ pc[t] = "ui_ready"
    /\ pc' = [pc EXCEPT ![t] = "body"]
    /\ body_reached' = [body_reached EXCEPT ![t] = TRUE]
    /\ UNCHANGED <<driver_instance, home_page, ui_ctx, outcome, drivers, created>>
    /\ UNCHANGED <<factoryVars, configVars>>
    /\ UNCHANGED libVars

\* test_search_starcraft_streamer: completes normally or raises.
test_body(t) ==
    /\ pc[t] = "body"
    /\ \E raised \in BOOLEAN :
         outcome' = [outcome EXCEPT ![t] = IF raised THEN "failed" ELSE "passed"]
    /\ pc' = [pc EXCEPT ![t] = "teardown"]
    /\ UNCHANGED <<driver_instance, home_page, ui_ctx, drivers, created, body_reached>>
    /\ UNCHANGED <<factoryVars, configVars>>
    /\ UNCHANGED libVars

\* A teardown that only runs when the body completed normally, as if quit() were
\* the last statement of the test instead of the code after the fixture's yield.
driver_teardown_OnlyOnSuccess(t) ==
    /\ pc[t] = "teardown"
    /\ drivers' = IF outcome[t] = "passed" THEN Quit(drivers, driver_instance[t]) ELSE drivers
    /\ pc' = [pc EXCEPT ![t] = "done"]
    /\ UNCHANGED <<driver_instance, home_page, ui_ctx, outcome, created, body_reached>>
    /\ UNCHANGED <<factoryVars, configVars>>
    /\ UNCHANGED libVars

\* driver fixture, after its yield: driver_instance.quit()
driver_teardown(t) ==
    /\ pc[t] = "teardown"
    /\ drivers' = Quit(drivers, driver_instance[t])
    /\ pc' = [pc EXCEPT ![t] = "done"]
    /\ UNCHANGED <<driver_instance, home_page, ui_ctx, outcome, created, body_reached>>
    /\ UNCHANGED <<factoryVars, configVars>>
    /\ UNCHANGED libVars

SessionInit ==
    /\ pc = [t \in Tests |-> "start"]
    /\ driver_instance = [t \in Tests |-> NoHandle]
    /\ home_page = [t \in Tests |-> NoHandle]
    /\ ui_ctx = [t \in Tests |-> NoHandle]
    /\ outcome = [t \in Tests |-> "none"]
    /\ drivers = <<>>
    /\ created = [t \in Tests |-> {}]
    /\ body_reached = [t \in Tests |-> FALSE]

\* the sequences over S of length at most n
SeqsUpTo(S, n) == UNION {[1..k -> S] : k \in 0..n}

\* any command line, any device config file of at most NumTests records
ConfigInit ==
    /\ options \in [device_name : DeviceArgs, is_local : BOOLEAN]
    /\ devices_config \in SeqsUpTo(DeviceNames, NumTests)
    /\ params = <<>>
    /\ config_reads = 0
    /\ collected = FALSE

FactoryIdle ==
    /\ browser_calls = 0
    /\ browser_call = <<>>
    /\ browser_result = <<>>
    /\ browser_errors = 0

ConfigIdle ==
    /\ options = <<>>
    /\ devices_config = <<>>
    /\ params = <<>>
    /\ config_reads = 0
    /\ collected = FALSE

LibIdle ==
    /\ dom = <<>>
    /\ call = <<>>
    /\ prog = <<>>
    /\ handler = <<>>
    /\ elapsed = 0
    /\ regs = <<>>
    /\ result = <<>>
    /\ log_errors = 0
    /\ lookups = 0
    /\ interactions = <<>>
    /\ clock = 0
    /\ held = FALSE
    /\ existed = FALSE
    /\ timed_out = FALSE
    /\ waited = <<>>

Init == SessionInit /\ ConfigInit /\ FactoryIdle /\ LibIdle

Next ==
    \/ pytest_generate_tests
    \/ \E t \in Tests :
        \/ driver_setup(t)
        \/ ui(t)
        \/ setup(t)
        \/ test_body(t)
        \/ driver_teardown(t)

Spec == Init /\ [][Next]_vars

\* The factory alone, called with any arguments
InitFactory ==
    /\ FactoryIdle
    /\ drivers = <<>>
    /\ pc = <<>>
    /\ driver_instance = <<>>
    /\ home_page = <<>>
    /\ ui_ctx = <<>>
    /\ outcome = <<>>
    /\ created = <<>>
    /\ body_reached = <<>>
    /\ ConfigIdle
    /\ LibIdle

NextFactory == browser_driver

SpecFactory == InitFactory /\ [][NextFactory]_vars

-----------------------------------------------------------------------------
(***************************************************************************)
(* Page action library (tools/ui/base/base_page.py)                        *)
(*                                                                         *)
(* A library function is the sequence of steps it runs.  A step is one of  *)
(*   value  - a value is at hand (no driver traffic);                      *)
(*   until  - WebDriverWait(driver, timeout).until(condition(locator)),    *)
(*            with the function's except TimeoutException clause;          *)
(*   raise  - an exception is raised;                                      *)
(*   find   - parent.find_element / find_elements under a resolved base,   *)
(*            with the function's except NoSuchElementException clause;    *)
(*   act    - one interaction on the driver;                               *)
(*   try    - the steps that follow run inside try/except ... return v;    *)
(*   return - the call returns;                                            *)
(*   enter / yield - a call of another library function from within the    *)
(*            call and its return (its values are dropped, its result kept *)
(*            or discarded);                                               *)
(*   if     - the steps to run when the value just produced is true;       *)
(*   sleep  - time.sleep(n);                                               *)
(*   pick   - els[0] or random.choice(els) of the list just produced.      *)
(* The value a function returns is the last value its steps produced.      *)
(***************************************************************************)

MaxTimeoutArg == 2  \* explicit timeout arguments are 1..MaxTimeoutArg
MaxScrolls == 2     \* largest times argument of scroll_home_screen

MaxMatches == 2     \* find_elements returns 1..MaxMatches handles when any match

\* self.timeout, set by BasePageActions.__init__
self_timeout == 10

\* timeout=None
NoTimeout == 0 - 1

\* What the page shows for a locator: 0 no such element, 1 in the DOM but not
\* displayed, 2 displayed but disabled, 3 displayed and enabled.
Levels == 0..3

\* ---- Python values ----
PyNone == [kind |-> "None", b |-> FALSE, els |-> <<>>]
PyBool(b) == [kind |-> "bool", b |-> b, els |-> <<>>]
PyElement(h) == [kind |-> "element", b |-> FALSE, els |-> <<h>>]
PyList(hs) == [kind |-> "list", b |-> FALSE, els |-> hs]

\* In regs: where the values of a called function begin
PyMark == [kind |-> "mark", b |-> FALSE, els |-> <<>>]

\* As the element argument of a called function: the caller's latest value
ArgRef == [kind |-> "ref", b |-> FALSE, els |-> <<>>]

\* The index in rs of the innermost called function's mark (0 at top level)
Base(rs) ==
    LET ms == {i \in 1..Len(rs) : rs[i].kind = "mark"}
    IN  IF ms = {} THEN 0 ELSE CHOOSE i \in ms : \A j \in ms : j <= i

\* The element a locator finds: the idx-th match, displayed or not when found.
Handle(id, idx, shown) == [loc |-> id, idx |-> idx, shown |-> shown]

\* locator arguments: None, a Locator object, a (by, value) tuple
NoLocator == [form |-> "None", id |-> "-"]
LocatorObj(id) == [form |-> "Locator", id |-> id]
LocatorTuple(id) == [form |-> "tuple", id |-> id]

\* bool(x) of an argument: None is falsy; Locator objects, (by, value) tuples
\* and WebElements are truthy.
TruthyLocator(locator) == locator.form # "None"
TruthyElement(element) == element.kind # "None"

Exc(type, text, locator, timeout) ==
    [type |-> type, text |-> text, locator |-> locator, timeout |-> timeout]
NoExc == Exc("none", "", NoLocator, NoTimeout)

\* ---- steps ----
Value(v) == [k |-> "value", v |-> v]
RaiseStep(exc) == [k |-> "raise", exc |-> exc]
Until(cond, locator, timeout, text, show_error_logs) ==
    [k |-> "until", cond |-> cond, locator |-> locator, timeout |-> timeout,
     on_timeout |-> [log |-> show_error_logs,
                     exc |-> Exc("AssertionError", text, locator, timeout)]]
Act(name, reg) == [k |-> "act", name |-> name, reg |-> reg]
Try(catches, v) == [k |-> "try", catches |-> catches, v |-> v]
Return(what) == [k |-> "return", what |-> what]
Enter == [k |-> "enter"]
Yield(what, keep) == [k |-> "yield", what |-> what, keep |-> keep]
If(then) == [k |-> "if", then |-> then]
Sleep(n) == [k |-> "sleep", n |-> n]
Pick(how) == [k |-> "pick", how |-> how]
Find(many, locator, text) ==
    [k |-> "find", many |-> many, locator |-> locator,
     on_missing |-> Exc("AssertionError", text, locator, NoTimeout)]

\* self.f(...) as a statement: the steps of f run as a call whose result is dropped
Do(steps) ==
    <<Enter>> \o SubSeq(steps, 1, Len(steps) - 1) \o <<Yield(steps[Len(steps)].what, FALSE)>>

\* self.f(...) as an expression: the steps of f run as a call whose result is kept
CallOf(steps) ==
    <<Enter>> \o SubSeq(steps, 1, Len(steps) - 1) \o <<Yield(steps[Len(steps)].what, TRUE)>>

\* locator.by / locator.value on something that is not a Locator object
AttributeError(locator) == RaiseStep(Exc("AttributeError", "by", locator, NoTimeout))

\* if timeout is None: timeout = self.timeout
Default(timeout) == IF timeout = NoTimeout THEN self_timeout ELSE timeout

\* (locator.by, locator.value)
AsTuple(locator) == LocatorTuple(locator.id)

\* ---- expected conditions, as the driver evaluates them on one poll ----
ListConds == {"visibility_of_all_elements_located", "presence_of_all_elements_located"}

CondHolds(cond, level) ==
    CASE cond = "visibility_of_element_located"      -> level >= 2
      [] cond = "presence_of_element_located"        -> level >= 1
      [] cond = "element_to_be_clickable"            -> level = 3
      [] cond = "visibility_of_all_elements_located" -> level >= 2
      [] cond = "presence_of_all_elements_located"   -> level >= 1
      [] cond = "invisibility_of_element_located"    -> level <= 1

\* what until() returns when the condition holds, n elements matching
CondValue(cond, id, level, n) ==
    CASE cond \in ListConds -> PyList([i \in 1..n |-> Handle(id, i, level >= 2)])
      [] cond = "invisibility_of_element_located" -> PyBool(TRUE)
      [] OTHER -> PyElement(Handle(id, 1, level >= 2))

\* ---- getters ----

\* get_visible_element with the error swallowed when error logs are off
get_visible_element_Quiet(locator, timeout, show_error_logs) ==
    IF locator.form = "None"
    THEN <<AttributeError(locator)>>
    ELSE LET loc == IF locator.form # "tuple" THEN AsTuple(locator) ELSE locator
             step == Until("visibility_of_element_located", loc, Default(timeout),
                           "Cannot find visible element", show_error_logs)
         IN  <<IF show_error_logs THEN step
               ELSE [step EXCEPT !.on_timeout.exc = NoExc]>>

get_visible_element(locator, timeout, show_error_logs) ==
    IF locator.form = "None"
    THEN <<AttributeError(locator)>>
    ELSE LET loc == IF locator.form # "tuple" THEN AsTuple(locator) ELSE locator
         IN  <<Until("visibility_of_element_located", loc, Default(timeout),
                     "Cannot find visible element", show_error_logs)>>

get_present_element(locator, timeout, show_error_logs) ==
    IF locator.form # "Locator"
    THEN <<AttributeError(locator)>>
    ELSE <<Until("presence_of_element_located", AsTuple(locator), Default(timeout),
                 "Cannot find present element", show_error_logs)>>

get_clickable_element(locator, timeout, show_error_logs) ==
    <<Until("element_to_be_clickable", locator, Default(timeout),
            "Cannot find clickable element", show_error_logs)>>

get_visible_elements_list(locator, timeout, show_error_logs) ==
    <<Until("visibility_of_all_elements_located", locator, Default(timeout),
            "Cannot find list of visible elements", show_error_logs)>>

get_present_elements_list(locator, timeout, show_error_logs) ==
    IF locator.form # "Locator"
    THEN <<AttributeError(locator)>>
    ELSE <<Until("presence_of_all_elements_located", AsTuple(locator), Default(timeout),
                 "Cannot find list of present elements", show_error_logs)>>

\* wait_elements_invisibility polling for visibility instead
wait_elements_invisibility_Visible(locator, timeout, show_error_logs) ==
    <<Until("visibility_of_element_located", locator, Default(timeout),
            "Element is visible after", show_error_logs)>>

wait_elements_invisibility(locator, timeout, show_error_logs) ==
    <<Until("invisibility_of_element_located", locator, Default(timeout),
            "Element is visible after", show_error_logs)>>

\* __element with the locator taking precedence over the handle
__element_LocatorFirst(locator, element, timeout, show_error_logs) ==
    IF TruthyLocator(locator)
    THEN get_visible_element(IF locator.form # "tuple" THEN AsTuple(locator) ELSE locator,
                             Default(timeout), show_error_logs)
    ELSE IF TruthyElement(element)
         THEN <<Value(element)>>
         ELSE <<RaiseStep(Exc("Exception", "Unknown way to define an element",
                              NoLocator, NoTimeout))>>

__element(locator, element, timeout, show_error_logs) ==
    IF TruthyElement(element)
    THEN <<Value(element)>>
    ELSE IF TruthyLocator(locator)
         THEN get_visible_element(IF locator.form # "tuple" THEN AsTuple(locator) ELSE locator,
                                  Default(timeout), show_error_logs)
         ELSE <<RaiseStep(Exc("Exception", "Unknown way to define an element",
                              NoLocator, NoTimeout))>>

\* ---- child lookups ----

get_child_element(child_locator, base_element, base_locator, timeout) ==
    __element(base_locator, base_element, Default(timeout), TRUE)
    \o <<IF child_locator.form # "Locator"
         THEN AttributeError(child_locator)
         ELSE Find(FALSE, child_locator, "Cannot find child element")>>

get_child_elements_list(child_locator, base_element, base_locator, timeout) ==
    __element(base_locator, base_element, Default(timeout), TRUE)
    \o <<IF child_locator.form # "Locator"
         THEN AttributeError(child_locator)
         ELSE Find(TRUE, child_locator, "Cannot find multiple child elements list")>>

\* ---- boolean probes ----

\* except (TimeoutException, AssertionError)
ProbeCatches == {"TimeoutException", "AssertionError"}

\* element_is_displayed with a bare "except Exception"
element_is_displayed_CatchAll(locator, element, timeout) ==
    <<Try(ProbeCatches \cup {"Exception", "TypeError", "AttributeError"}, PyBool(FALSE))>>
    \o __element(locator, element, Default(timeout), FALSE)
    \o <<Return("is_displayed")>>

element_is_displayed(locator, element, timeout) ==
    <<Try(ProbeCatches, PyBool(FALSE))>>
    \o __element(locator, element, Default(timeout), FALSE)
    \o <<Return("is_displayed")>>

element_is_present(locator, timeout) ==
    <<Try(ProbeCatches, PyBool(FALSE))>>
    \o get_present_element(locator, Default(timeout), FALSE)
    \o <<Return("True")>>

element_is_absent(locator, timeout) ==
    <<Try(ProbeCatches, PyBool(FALSE))>>
    \o wait_elements_invisibility(locator, Default(timeout), FALSE)
    \o <<Return("True")>>

element_is_clickable(locator, timeout) ==
    <<Try(ProbeCatches, PyBool(FALSE))>>
    \o get_clickable_element(locator, timeout, FALSE)
    \o <<Return("True")>>

\* ---- interactions ----

click_element(locator, element, timeout) ==
    __element(locator, element, Default(timeout), TRUE)
    \o <<Act("click", 1), Return("None")>>

\* input_to_element sending the text twice
input_to_element_Twice(locator, element, timeout) ==
    __element(locator, element, Default(timeout), TRUE)
    \o <<Act("send_keys", 1), Act("send_keys", 1), Return("None")>>

input_to_element(locator, element, timeout) ==
    __element(locator, element, Default(timeout), TRUE)
    \o <<Act("send_keys", 1), Return("None")>>

clear_textbox(locator, element, timeout) ==
    __element(locator, element, Default(timeout), TRUE)
    \o <<Act("clear", 1), Return("None")>>

\* el is resolved once and handed to two input_to_element calls: CONTROL + a,
\* then DELETE
clear_textbox_with_keyboard(locator, element, timeout) ==
    __element(locator, element, Default(timeout), TRUE)
    \o Do(input_to_element(NoLocator, ArgRef, NoTimeout))
    \o Do(input_to_element(NoLocator, ArgRef, NoTimeout))
    \o <<Return("None")>>

switch_to_frame(locator, element, timeout) ==
    __element(locator, element, Default(timeout), TRUE)
    \o <<Act("switch_to_frame", 1), Return("None")>>

\* driver.execute_script(script, *args): reg is the element argument, 0 for none
execute_script(reg) == <<Act("execute_script", reg)>>

moveto_element(locator_to_move, element_to_move, timeout) ==
    __element(locator_to_move, element_to_move, Default(timeout), TRUE)
    \o <<Act("move_to_element", 1), Return("None")>>

scroll_into_element_center(locator, element, timeout) ==
    __element(locator, element, Default(timeout), TRUE)
    \o execute_script(1)
    \o <<Return("None")>>

scroll_down == execute_script(0) \o <<Return("None")>>

\* moveto_and_click_element hovering before it resolves the click target
moveto_and_click_element_HoverFirst(locator_to_move, element_to_move, timeout_to_move, locator_to_click, element_to_click, timeout_to_click) ==
    __element(locator_to_move, element_to_move, timeout_to_move, TRUE)
    \o <<Act("move_to_element", 1)>>
    \o __element(locator_to_click, element_to_click, timeout_to_click, TRUE)
    \o <<Act("click", 2), Return("None")>>

moveto_and_click_element(locator_to_move, element_to_move, timeout_to_move, locator_to_click, element_to_click, timeout_to_click) ==
    __element(locator_to_move, element_to_move, timeout_to_move, TRUE)
    \o __element(locator_to_click, element_to_click, timeout_to_click, TRUE)
    \o <<Act("move_to_element", 1), Act("click", 2), Return("None")>>

-----------------------------------------------------------------------------
(***************************************************************************)
(* HomePage (home_page.py): the page object's actions, each a sequence of  *)
(* library calls on its own locators                                       *)
(***************************************************************************)

search_button == LocatorObj("search_button")
page_logo == LocatorObj("page_logo")
search_field == LocatorObj("search_field")
search_result_elements == LocatorObj("search_result_elements")
stream_list_elements == LocatorObj("stream_list_elements")
stream_live_label == LocatorObj("stream_live_label")
start_watching_button == LocatorObj("start_watching_button")
folow_button == LocatorObj("folow_button")

\* input_search_field clicking the first card without waiting for the cards
input_search_field_NoWait ==
    Do(input_to_element(search_field, PyNone, NoTimeout))
    \o <<Value(PyList(<<Handle("search_result_elements", 1, TRUE)>>)), Pick("first")>>
    \o Do(click_element(NoLocator, ArgRef, NoTimeout))
    \o <<Return("None")>>

input_search_field ==
    Do(input_to_element(search_field, PyNone, NoTimeout))
    \o CallOf(get_present_elements_list(search_result_elements, 3, TRUE) \o <<Return("last")>>)
    \o <<Pick("first")>>
    \o Do(click_element(NoLocator, ArgRef, NoTimeout))
    \o <<Return("None")>>

\* for _ in range(n): steps
Repeat(steps, n) ==
    [i \in 1..(n * Len(steps)) |-> steps[((i - 1) % Len(steps)) + 1]]

\* scroll_home_screen scrolling once more than asked
scroll_home_screen_OneMore(times) ==
    Do(get_present_element(folow_button, 7, TRUE) \o <<Return("last")>>)
    \o <<Sleep(2)>>
    \o Repeat(Do(scroll_down), times + 1)
    \o <<Return("None")>>

scroll_home_screen(times) ==
    Do(get_present_element(folow_button, 7, TRUE) \o <<Return("last")>>)
    \o <<Sleep(2)>>
    \o Repeat(Do(scroll_down), times)
    \o <<Return("None")>>

\* click_random_stream taking the cards as they are now, without the wait
click_random_stream_FindNow ==
    <<Find(TRUE, AsTuple(stream_list_elements), "Cannot find list of present elements"),
      Pick("random")>>
    \o Do(scroll_into_element_center(NoLocator, ArgRef, NoTimeout))
    \o Do(click_element(NoLocator, ArgRef, NoTimeout))
    \o <<Return("None")>>

click_random_stream ==
    CallOf(get_present_elements_list(stream_list_elements, 3, TRUE) \o <<Return("last")>>)
    \o <<Pick("random")>>
    \o Do(scroll_into_element_center(NoLocator, ArgRef, NoTimeout))
    \o Do(click_element(NoLocator, ArgRef, NoTimeout))
    \o <<Return("None")>>

\* wait_video_starting waiting for the indicator to be visible only
wait_video_starting_VisibleOnly ==
    CallOf(element_is_displayed(start_watching_button, PyNone, 5))
    \o <<If(Do(click_element(start_watching_button, PyNone, NoTimeout)))>>
    \o Do(get_visible_element(stream_live_label, NoTimeout, TRUE) \o <<Return("last")>>)
    \o <<Return("None")>>

wait_video_starting ==
    CallOf(element_is_displayed(start_watching_button, PyNone, 5))
    \o <<If(Do(click_element(start_watching_button, PyNone, NoTimeout)))>>
    \o Do(get_present_element(stream_live_label, NoTimeout, TRUE) \o <<Return("last")>>)
    \o Do(get_visible_element(stream_live_label, NoTimeout, TRUE) \o <<Return("last")>>)
    \o <<Return("None")>>

-----------------------------------------------------------------------------
(***************************************************************************)
(* One library call against a changing page                                *)
(***************************************************************************)

Timeouts == {NoTimeout} \cup (1..MaxTimeoutArg)

LocatorArgs(id) == {NoLocator, LocatorObj(id), LocatorTuple(id)}

\* handles the caller resolved earlier; they match none of the call's locators
ElementArgs(id) == {PyNone, PyElement(Handle(id, 1, TRUE)), PyElement(Handle(id, 1, FALSE))}

WaitOps ==
    {"get_visible_element", "get_present_element", "get_clickable_element",
     "get_visible_elements_list", "get_present_elements_list",
     "wait_elements_invisibility"}

ProbeOps == {"element_is_present", "element_is_absent", "element_is_clickable"}

\* the interactions on one target
InteractOps ==
    {"click_element", "input_to_element", "clear_textbox", "clear_textbox_with_keyboard",
     "moveto_element", "scroll_into_element_center", "switch_to_frame"}

\* the actions of the page object
PageOps ==
    {"input_search_field", "click_random_stream", "wait_video_starting", "scroll_home_screen"}

\* locator / element are the base, locator2 the child locator
ChildOps == {"get_child_element", "get_child_elements_list"}

NewCall(op, locator, element, timeout, show) ==
    [op |-> op, locator |-> locator, element |-> element, timeout |-> timeout,
     show |-> show,
     locator2 |-> NoLocator, element2 |-> PyNone, timeout2 |-> NoTimeout, times |-> 0]

Calls ==
    {NewCall(op, l, PyNone, t, s) :
        op \in WaitOps, l \in LocatorArgs("A") \ {NoLocator}, t \in Timeouts, s \in BOOLEAN}
    \cup {NewCall("__element", l, e, t, s) :
        l \in LocatorArgs("A"), e \in ElementArgs("X"), t \in Timeouts, s \in BOOLEAN}
    \cup {NewCall("element_is_displayed", l, e, t, TRUE) :
        l \in LocatorArgs("A"), e \in ElementArgs("X"), t \in Timeouts}
    \cup {NewCall(op, l, PyNone, t, TRUE) :
        op \in ProbeOps, l \in LocatorArgs("A"), t \in Timeouts}
    \cup {NewCall(op, l, e, t, TRUE) :
        op \in InteractOps,
        l \in LocatorArgs("A"), e \in ElementArgs("X"), t \in Timeouts}
    \cup {NewCall(op, NoLocator, PyNone, NoTimeout, TRUE) :
        op \in PageOps \ {"scroll_home_screen"}}
    \cup {[NewCall("scroll_home_screen", NoLocator, PyNone, NoTimeout, TRUE)
              EXCEPT !.times = n] : n \in 0..MaxScrolls}
    \cup {[NewCall(op, l, e, t, TRUE) EXCEPT !.locator2 = l2] :
        op \in ChildOps, l \in LocatorArgs("A") \ {NoLocator},
        e \in {PyNone, PyElement(Handle("X", 1, TRUE))}, t \in {NoTimeout, 1},
        l2 \in {LocatorObj("C"), LocatorTuple("C")}}
    \cup {[NewCall("moveto_and_click_element", l, e, t, TRUE)
              EXCEPT !.locator2 = l2, !.element2 = e2, !.timeout2 = t2] :
        l \in LocatorArgs("A"), e \in {PyNone, PyElement(Handle("X", 1, TRUE))},
        t \in {NoTimeout, 1},
        l2 \in LocatorArgs("B"), e2 \in {PyNone, PyElement(Handle("Y", 1, TRUE))},
        t2 \in {NoTimeout, 1}}

\* the locators a call can poll
CallLocs(c) ==
    CASE c.op = "moveto_and_click_element" -> {"A", "B"}
      [] c.op \in ChildOps -> {"A", "C"}
      [] c.op = "input_search_field" -> {"search_field", "search_result_elements"}
      [] c.op = "click_random_stream" -> {"stream_list_elements"}
      [] c.op = "scroll_home_screen" -> {"folow_button"}
      [] c.op = "wait_video_starting" -> {"start_watching_button", "stream_live_label"}
      [] OTHER -> {"A"}

\* the steps of a call, and its return statement when it is a getter
Program(c) ==
    CASE c.op = "get_visible_element" ->
            get_visible_element(c.locator, c.timeout, c.show) \o <<Return("last")>>
      [] c.op = "get_present_element" ->
            get_present_element(c.locator, c.timeout, c.show) \o <<Return("last")>>
      [] c.op = "get_clickable_element" ->
            get_clickable_element(c.locator, c.timeout, c.show) \o <<Return("last")>>
      [] c.op = "get_visible_elements_list" ->
            get_visible_elements_list(c.locator, c.timeout, c.show) \o <<Return("last")>>
      [] c.op = "get_present_elements_list" ->
            get_present_elements_list(c.locator, c.timeout, c.show) \o <<Return("last")>>
      [] c.op = "wait_elements_invisibility" ->
            wait_elements_invisibility(c.locator, c.timeout, c.show) \o <<Return("None")>>
      [] c.op = "__element" ->
            __element(c.locator, c.element, c.timeout, c.show) \o <<Return("last")>>
      [] c.op = "element_is_displayed" ->
            element_is_displayed(c.locator, c.element, c.timeout)
      [] c.op = "element_is_present" -> element_is_present(c.locator, c.timeout)
      [] c.op = "element_is_absent" -> element_is_absent(c.locator, c.timeout)
      [] c.op = "element_is_clickable" -> element_is_clickable(c.locator, c.timeout)
      [] c.op = "click_element" -> click_element(c.locator, c.element, c.timeout)
      [] c.op = "input_to_element" -> input_to_element(c.locator, c.element, c.timeout)
      [] c.op = "clear_textbox" -> clear_textbox(c.locator, c.element, c.timeout)
      [] c.op = "clear_textbox_with_keyboard" ->
            clear_textbox_with_keyboard(c.locator, c.element, c.timeout)
      [] c.op = "switch_to_frame" -> switch_to_frame(c.locator, c.element, c.timeout)
      [] c.op = "moveto_element" -> moveto_element(c.locator, c.element, c.timeout)
      [] c.op = "scroll_into_element_center" ->
            scroll_into_element_center(c.locator, c.element, c.timeout)
      [] c.op = "get_child_element" ->
            get_child_element(c.locator2, c.element, c.locator, c.timeout)
            \o <<Return("last")>>
      [] c.op = "get_child_elements_list" ->
            get_child_elements_list(c.locator2, c.element, c.locator, c.timeout)
            \o <<Return("last")>>
      [] c.op = "input_search_field" -> input_search_field
      [] c.op = "click_random_stream" -> click_random_stream
      [] c.op = "scroll_home_screen" -> scroll_home_screen(c.times)
      [] c.op = "wait_video_starting" -> wait_video_starting
      [] c.op = "moveto_and_click_element" ->
            moveto_and_click_element(c.locator, c.element, c.timeout,
                                     c.locator2, c.element2, c.timeout2)

NoHandler == [catches |-> {}, v |-> PyNone]

Running == [status |-> "running", value |-> PyNone, exc |-> NoExc]
Returned(v) == [status |-> "returned", value |-> v, exc |-> NoExc]
Raised(exc) == [status |-> "raised", value |-> PyNone, exc |-> exc]

\* The steps left after the return of the called function in progress
AfterYield(steps) ==
    LET ys == {i \in 1..Len(steps) : steps[i].k = "yield"}
    IN  IF ys = {} THEN 0 ELSE CHOOSE i \in ys : \A j \in ys : i <= j

\* An exception leaves the call unless the enclosing try catches its class, in
\* which case the function holding the try returns the except clause's value:
\* to the caller when it is the call itself, to the steps after it otherwise.
Propagate(exc) ==
    IF exc.type \in handler.catches
    THEN IF AfterYield(prog) = 0
         THEN /\ result' = Returned(handler.v)
              /\ prog' = <<>>
              /\ UNCHANGED <<regs, handler>>
         ELSE /\ regs' = SubSeq(regs, 1, Base(regs) - 1)
                         \o (IF prog[AfterYield(prog)].keep THEN <<handler.v>> ELSE <<>>)
              /\ prog' = SubSeq(prog, AfterYield(prog) + 1, Len(prog))
              /\ handler' = NoHandler
              /\ UNCHANGED result
    ELSE /\ result' = Raised(exc)
         /\ prog' = <<>>
         /\ UNCHANGED <<regs, handler>>

\* the value of a return statement
ReturnValue(what, rs) ==
    CASE what = "last" -> rs[Len(rs)]
      [] what = "None" -> PyNone
      [] what = "True" -> PyBool(TRUE)
      [] what = "is_displayed" -> PyBool(rs[Len(rs)].els[1].shown)

\* execute_script without an element argument
NoTarget == Handle("-", 0, FALSE)

LibInit ==
    /\ call \in Calls
    /\ dom \in [CallLocs(call) -> Levels]
    /\ prog = Program(call)
    /\ handler = NoHandler
    /\ elapsed = 0
    /\ regs = <<>>
    /\ result = Running
    /\ log_errors = 0
    /\ lookups = 0
    /\ interactions = <<>>
    /\ clock = 0
    /\ held = FALSE
    /\ existed = FALSE
    /\ timed_out = FALSE
    /\ waited = <<>>

SessionIdle ==
    /\ pc = <<>>
    /\ driver_instance = <<>>
    /\ home_page = <<>>
    /\ ui_ctx = <<>>
    /\ outcome = <<>>
    /\ drivers = <<>>
    /\ created = <<>>
    /\ body_reached = <<>>
    /\ FactoryIdle
    /\ ConfigIdle

\* try:
StepTry ==
    /\ prog # <<>> /\ prog[1].k = "try"
    /\ handler' = [catches |-> prog[1].catches, v |-> prog[1].v]
    /\ prog' = Tail(prog)
    /\ UNCHANGED <<dom, call, elapsed, regs, result, log_errors, lookups, interactions,
                   clock, held, existed, timed_out, waited>>
    /\ UNCHANGED sessionVars

\* a value at hand: the handle the caller supplied
StepValue ==
    /\ prog # <<>> /\ prog[1].k = "value"
    /\ regs' = Append(regs, IF prog[1].v.kind = "ref"
                            THEN regs[Base(regs) - 1]
                            ELSE prog[1].v)
    /\ prog' = Tail(prog)
    /\ UNCHANGED <<dom, call, handler, elapsed, result, log_errors, lookups, interactions,
                   clock, held, existed, timed_out, waited>>
    /\ UNCHANGED sessionVars

\* raise
StepRaise ==
    /\ prog # <<>> /\ prog[1].k = "raise"
    /\ Propagate(prog[1].exc)
    /\ UNCHANGED <<dom, call, elapsed, log_errors, lookups, interactions,
                   clock, held, existed, timed_out, waited>>
    /\ UNCHANGED sessionVars

\* One iteration of WebDriverWait.until: evaluate the condition on the page as it
\* is; return its value when it holds; otherwise sleep one poll interval, during
\* which the page may change, and raise TimeoutException once the timeout has
\* elapsed.  The expected conditions unpack the locator (find_element(*locator)):
\* anything but a (by, value) tuple is a TypeError before any lookup.  The calling
\* function's except TimeoutException clause logs (when asked) and raises its own
\* error in place of the TimeoutException.
StepUntil ==
    /\ prog # <<>> /\ prog[1].k = "until"
    /\ LET w == prog[1]
       IN  IF w.locator.form # "tuple"
           THEN /\ Propagate(Exc("TypeError", "argument after * must be an iterable",
                                 w.locator, NoTimeout))
                /\ UNCHANGED <<dom, elapsed, log_errors, lookups, clock, held,
                               existed, timed_out, waited>>
           ELSE LET level == dom[w.locator.id]
                IN  /\ lookups' = lookups + 1
                    /\ held' = (held \/ CondHolds(w.cond, level))
                    /\ existed' = (existed \/ level >= 1)
                    /\ IF CondHolds(w.cond, level)
                       THEN /\ \E n \in 1..(IF w.cond \in ListConds THEN MaxMatches ELSE 1) :
                                 regs' = Append(regs, CondValue(w.cond, w.locator.id, level, n))
                            /\ prog' = Tail(prog)
                            /\ elapsed' = 0
                            /\ waited' = Append(waited, [cond |-> w.cond, id |-> w.locator.id])
                            /\ UNCHANGED <<dom, result, handler, log_errors, clock, timed_out>>
                       ELSE /\ dom' \in [DOMAIN dom -> Levels]
                            /\ clock' = clock + 1
                            /\ UNCHANGED waited
                            /\ IF elapsed + 1 >= w.timeout
                               THEN /\ timed_out' = TRUE
                                    /\ elapsed' = 0
                                    /\ log_errors' = log_errors + (IF w.on_timeout.log THEN 1 ELSE 0)
                                    /\ IF w.on_timeout.exc.type = "none"
                                       THEN /\ regs' = Append(regs, PyNone)
                                            /\ prog' = Tail(prog)
                                            /\ UNCHANGED <<result, handler>>
                                       ELSE Propagate(w.on_timeout.exc)
                               ELSE /\ elapsed' = elapsed + 1
                                    /\ UNCHANGED <<prog, regs, result, handler, log_errors,
                                                   timed_out>>
    /\ UNCHANGED <<call, interactions>>
    /\ UNCHANGED sessionVars

\* parent_el.find_element(by, value) raises NoSuchElementException when nothing
\* under the base matches, which the calling function's except clause logs and
\* turns into its own error; parent_el.find_elements(by, value) returns the
\* matches, an empty list when there are none, and raises nothing.
StepFind ==
    /\ prog # <<>> /\ prog[1].k = "find"
    /\ LET f == prog[1]
           level == dom[f.locator.id]
       IN  /\ lookups' = lookups + 1
           /\ IF f.many
              THEN /\ \E n \in (IF level >= 1 THEN 1..MaxMatches ELSE {0}) :
                        regs' = Append(regs,
                                  PyList([i \in 1..n |-> Handle(f.locator.id, i, level >= 2)]))
                   /\ prog' = Tail(prog)
                   /\ UNCHANGED <<result, handler, log_errors>>
              ELSE IF level >= 1
                   THEN /\ regs' = Append(regs, PyElement(Handle(f.locator.id, 1, level >= 2)))
                        /\ prog' = Tail(prog)
                        /\ UNCHANGED <<result, handler, log_errors>>
                   ELSE /\ log_errors' = log_errors + 1
                        /\ Propagate(f.on_missing)
    /\ UNCHANGED <<dom, call, elapsed, interactions, clock, held, existed, timed_out, waited>>
    /\ UNCHANGED sessionVars

\* one interaction on the driver, with a handle the function resolved (its
\* reg-th value) or with none
StepAct ==
    /\ prog # <<>> /\ prog[1].k = "act"
    /\ interactions' = Append(interactions,
                              [name |-> prog[1].name,
                               target |-> IF prog[1].reg = 0
                                          THEN NoTarget
                                          ELSE regs[Base(regs) + prog[1].reg].els[1]])
    /\ prog' = Tail(prog)
    /\ UNCHANGED <<dom, call, handler, elapsed, regs, result, log_errors, lookups,
                   clock, held, existed, timed_out, waited>>
    /\ UNCHANGED sessionVars

\* return
StepReturn ==
    /\ prog # <<>> /\ prog[1].k = "return"
    /\ result' = Returned(ReturnValue(prog[1].what, regs))
    /\ prog' = <<>>
    /\ UNCHANGED <<dom, call, handler, elapsed, regs, log_errors, lookups, interactions,
                   clock, held, existed, timed_out, waited>>
    /\ UNCHANGED sessionVars

\* A call of another library function begins.  Between two calls the page may
\* have changed.
StepEnter ==
    /\ prog # <<>> /\ prog[1].k = "enter"
    /\ regs' = Append(regs, PyMark)
    /\ dom' \in [DOMAIN dom -> Levels]
    /\ prog' = Tail(prog)
    /\ UNCHANGED <<call, handler, elapsed, result, log_errors, lookups, interactions,
                   clock, held, existed, timed_out, waited>>
    /\ UNCHANGED sessionVars

\* The called function returns: its values go, its result stays when the caller
\* uses it; its try, if any, is left.
StepYield ==
    /\ prog # <<>> /\ prog[1].k = "yield"
    /\ regs' = SubSeq(regs, 1, Base(regs) - 1)
               \o (IF prog[1].keep THEN <<ReturnValue(prog[1].what, regs)>> ELSE <<>>)
    /\ handler' = NoHandler
    /\ prog' = Tail(prog)
    /\ UNCHANGED <<dom, call, elapsed, result, log_errors, lookups, interactions,
                   clock, held, existed, timed_out, waited>>
    /\ UNCHANGED sessionVars

\* if <the value just produced>: <steps>
StepIf ==
    /\ prog # <<>> /\ prog[1].k = "if"
    /\ prog' = (IF regs[Len(regs)].b THEN prog[1].then ELSE <<>>) \o Tail(prog)
    /\ UNCHANGED <<dom, call, handler, elapsed, regs, result, log_errors, lookups,
                   interactions, clock, held, existed, timed_out, waited>>
    /\ UNCHANGED sessionVars

\* time.sleep(n): time passes and the page may change
StepSleep ==
    /\ prog # <<>> /\ prog[1].k = "sleep"
    /\ clock' = clock + prog[1].n
    /\ dom' \in [DOMAIN dom -> Levels]
    /\ prog' = Tail(prog)
    /\ UNCHANGED <<call, handler, elapsed, regs, result, log_errors, lookups,
                   interactions, held, existed, timed_out, waited>>
    /\ UNCHANGED sessionVars

\* els[0] / random.choice(els) of the list just produced: IndexError when the
\* list is empty
StepPick ==
    /\ prog # <<>> /\ prog[1].k = "pick"
    /\ LET els == regs[Len(regs)].els
       IN  IF els = <<>>
           THEN Propagate(Exc("IndexError", "index out of range", NoLocator, NoTimeout))
           ELSE /\ \E i \in (IF prog[1].how = "first" THEN {1} ELSE 1..Len(els)) :
                     regs' = Append(regs, PyElement(els[i]))
                /\ prog' = Tail(prog)
                /\ UNCHANGED <<result, handler>>
    /\ UNCHANGED <<dom, call, elapsed, log_errors, lookups, interactions, clock, held,
                   existed, timed_out, waited>>
    /\ UNCHANGED sessionVars

InitLib == LibInit /\ SessionIdle

NextLib ==
    \/ StepTry
    \/ StepValue
    \/ StepRaise
    \/ StepUntil
    \/ StepFind
    \/ StepAct
    \/ StepReturn
    \/ StepEnter
    \/ StepYield
    \/ StepIf
    \/ StepSleep
    \/ StepPick

SpecLib == InitLib /\ [][NextLib]_vars

-----------------------------------------------------------------------------
(***************************************************************************)
(* Session claims                                                          *)
(***************************************************************************)

\* The handles of test t that are open now
OpenHandles(t) == {h \in created[t] : drivers[h].open}

\* C1: in every session whose test body is reached, the driver's quit() is
\* invoked exactly once: zero times until the session's teardown has run, once
\* when the session is over, whether the body completed normally or raised; the
\* session has no other driver.
C1_QuitExactlyOnce ==
    \A t \in Tests :
        body_reached[t] =>
            /\ driver_instance[t] # NoHandle
            /\ created[t] = {driver_instance[t]}
            /\ drivers[driver_instance[t]].quits = (IF pc[t] = "done" THEN 1 ELSE 0)

\* C1 witness: one session ended after its body passed and another after its body
\* raised, each with its driver quit once.
C1_Witness ==
    \E t1, t2 \in Tests :
        /\ body_reached[t1] /\ pc[t1] = "done" /\ outcome[t1] = "passed"
        /\ drivers[driver_instance[t1]].quits = 1
        /\ body_reached[t2] /\ pc[t2] = "done" /\ outcome[t2] = "failed"
        /\ drivers[driver_instance[t2]].quits = 1

\* C2: every driver handle the Browser factory produced for a test is closed
\* when the test's session is over, on every exit path (normal completion, a
\* failing body, a failing page object or context construction, a failing
\* initial navigation after the driver was created).
C2_EveryHandleClosed ==
    \A t \in Tests : pc[t] = "done" => OpenHandles(t) = {}

\* C3: each running test owns exactly one open driver handle, its page object
\* and its session context refer to that handle, and no other test refers to it.
C3_ExclusiveHandle ==
    \A t \in Tests :
        pc[t] = "body" =>
            /\ OpenHandles(t) = {driver_instance[t]}
            /\ home_page[t] = driver_instance[t]
            /\ ui_ctx[t] = driver_instance[t]
            /\ \A u \in Tests \ {t} :
                   driver_instance[t] \notin
                       ({driver_instance[u], home_page[u], ui_ctx[u]} \cup created[u])

\* C3 witness: two tests run their bodies at the same time, each on its own handle.
C3_Witness ==
    \E t, u \in Tests :
        /\ t # u
        /\ pc[t] = "body" /\ pc[u] = "body"
        /\ driver_instance[t] # driver_instance[u]
        /\ drivers[driver_instance[t]].open /\ drivers[driver_instance[u]].open

\* the driver a successful factory call adds
NewDriver(is_headless_arg, device_arg) ==
    [emulation |-> IF Truthy(device_arg) THEN device_arg ELSE NoneStr,
     headless |-> is_headless_arg,
     open |-> TRUE, quits |-> 0, loaded |-> FALSE]

\* C16: a browser_driver call with a name other than chrome (in any case) logs
\* one error and raises the unsupported-browser failure, and no driver exists
\* that did not exist before; a call with chrome that returns has logged no error
\* and returns the handle of one new driver, which emulates device_name exactly
\* when a device name was given (None and the empty string are no name) and is
\* headless exactly when is_headless is true.  A chrome call returns unless the
\* driver cannot be provisioned.
C16_FactoryContract ==
    [][browser_calls' = browser_calls + 1 =>
         LET c == browser_call'
             r == browser_result'
         IN  IF Lower(c.browser_name) # "chrome"
             THEN /\ r = [raised |-> "UnsupportedBrowser", handle |-> NoHandle]
                  /\ browser_errors' = browser_errors + 1
                  /\ drivers' = drivers
             ELSE /\ browser_errors' = browser_errors
                  /\ r.raised \in {"none", "DriverProvisioningError"}
                  /\ r.raised # "none" => (r.handle = NoHandle /\ drivers' = drivers)
                  /\ r.raised = "none" =>
                         /\ drivers' = Append(drivers, NewDriver(c.is_headless, c.device_name))
                         /\ r.handle = Len(drivers')]_vars

\* C16 witness: a chrome call with a device name and headless mode produced an
\* emulating headless driver, and the call after it, for firefox, was refused
\* with one error logged and no second driver.
C16_Witness ==
    /\ browser_calls = 2
    /\ Len(drivers) = 1
    /\ drivers[1].emulation \in DeviceNames
    /\ drivers[1].headless
    /\ browser_call.browser_name = "firefox"
    /\ browser_result.raised = "UnsupportedBrowser"
    /\ browser_errors = 1

\* C17: every driver of the session was requested headless exactly when the
\* value of --is_local read by the driver fixture is false, non-headless when it
\* is true.
C17_HeadlessIffNotLocal ==
    \A t \in Tests : \A h \in created[t] :
        drivers[h].headless = ~StoreTrue(options.is_local, TRUE)

\* C17 witness: a session run without --is_local on the command line (a local
\* run, by the default) is in its body on a non-headless driver.
C17_Witness ==
    /\ ~options.is_local
    /\ \E t \in Tests :
          /\ pc[t] = "body"
          /\ ~drivers[driver_instance[t]].headless

\* C18: once the runs are generated, with a device name on the command line
\* (--device_name with a non-empty value) there is exactly one run, for that
\* device, and the config file was not read; without one there is one run per
\* record of the config file, in the file's order, read once.  Only the generated
\* runs run, each on a driver emulating its own device.
C18_RunsFromDeviceOptions ==
    /\ ~collected => (config_reads = 0 /\ \A t \in Tests : pc[t] = "start")
    /\ collected =>
          /\ IF options.device_name \notin {NoneStr, ""}
             THEN params = <<options.device_name>> /\ config_reads = 0
             ELSE params = devices_config /\ config_reads = 1
          /\ \A t \in Tests :
                /\ pc[t] # "start" => t \in 1..Len(params)
                /\ \A h \in created[t] : drivers[h].emulation = params[t]

\* C18 witness: no device on the command line, two records in the config file,
\* and the second run is in its body on a driver emulating the second record's
\* device.
C18_Witness ==
    /\ collected
    /\ options.device_name = NoneStr
    /\ Len(devices_config) = 2
    /\ devices_config[1] # devices_config[2]
    /\ pc[2] = "body"
    /\ drivers[driver_instance[2]].emulation = devices_config[2]

\* C21: on every command line, with --is_local or without it, the value of
\* is_local the driver fixture reads is true, the fixture asks the factory for a
\* non-headless driver, and no driver of any session is headless.
C21_AlwaysLocal ==
    /\ options.is_local \in BOOLEAN
    /\ is_local = TRUE
    /\ is_headless = FALSE
    /\ \A h \in 1..Len(drivers) : ~drivers[h].headless

\* C21 witness: with --is_local on the command line, every generated run is in
\* its body on its own driver, and none of the drivers is headless.
C21_Witness ==
    /\ options.is_local
    /\ collected
    /\ Len(params) = NumTests
    /\ Len(drivers) = NumTests
    /\ \A t \in Tests : pc[t] = "body" /\ ~drivers[driver_instance[t]].headless

-----------------------------------------------------------------------------
(***************************************************************************)
(* Page action library claims (checked under SpecLib)                      *)
(***************************************************************************)

Finished == result.status # "running"

NeitherUsable(locator, element) == ~TruthyElement(element) /\ ~TruthyLocator(locator)

UsageError == Exc("Exception", "Unknown way to define an element", NoLocator, NoTimeout)

\* C4: when a wait by locator times out it raises the AssertionError
\* (ElementNotFound) built from the locator and the timeout in force, whatever
\* show_error_logs is; the flag decides only whether one error record is logged.
C4_TimeoutRaises ==
    (call.op \in WaitOps /\ timed_out) =>
        /\ result.status = "raised"
        /\ result.exc.type = "AssertionError"
        /\ result.exc.locator.id = call.locator.id
        /\ result.exc.timeout = Default(call.timeout)
        /\ clock = Default(call.timeout)
        /\ log_errors = (IF call.show THEN 1 ELSE 0)

\* C4 witness: a wait for visibility, called with error logs off and no timeout
\* argument, timed out and raised without logging.
C4_Witness ==
    /\ call.op = "get_visible_element"
    /\ ~call.show
    /\ call.timeout = NoTimeout
    /\ timed_out
    /\ result.status = "raised"
    /\ log_errors = 0

\* C5: a resolve by Locator, in each wait-mode, returns the handle only if the
\* condition held at a poll before the timeout T (default 10), and otherwise
\* raises ElementNotFound once T has elapsed, never earlier and never anything
\* else.
C5_ResolveByLocator ==
    (/\ call.op \in {"get_visible_element", "get_present_element", "get_clickable_element"}
     /\ call.locator.form = "Locator") =>
        /\ clock <= Default(call.timeout)
        /\ result.status = "returned" =>
              /\ held
              /\ clock < Default(call.timeout)
              /\ result.value.kind = "element"
        /\ result.status = "raised" =>
              /\ result.exc.type = "AssertionError"
              /\ clock = Default(call.timeout)
              /\ ~held

\* C6: element_is_displayed, element_is_present and element_is_clickable, called
\* with a Locator whose target never exists within the timeout, return false
\* and raise nothing.
C6_ProbesReturnFalse ==
    (/\ call.op \in {"element_is_displayed", "element_is_present", "element_is_clickable"}
     /\ call.locator.form = "Locator"
     /\ call.element = PyNone
     /\ Finished
     /\ ~existed) =>
        result = Returned(PyBool(FALSE))

C8_HandleWins ==
    (/\ call.op \in {"__element", "element_is_displayed", "click_element"}
     /\ TruthyElement(call.element)) =>
        /\ lookups = 0
        /\ clock = 0
        /\ Len(regs) >= 1 => regs[1] = call.element
        /\ (call.op = "__element" /\ Finished) => result = Returned(call.element)
        /\ (call.op = "click_element" /\ Finished) =>
               interactions = <<[name |-> "click", target |-> call.element.els[1]]>>

\* C8 witness: __element was given a handle together with a locator and
\* returned the handle.
C8_Witness ==
    /\ call.op = "__element"
    /\ TruthyElement(call.element)
    /\ TruthyLocator(call.locator)
    /\ result = Returned(call.element)

\* C9: a resolve given neither a usable locator nor a usable handle raises the
\* usage error, and the error leaves every operation that resolves, the boolean
\* probe element_is_displayed included: no result, no lookup, no interaction.
C9_UsageErrorPropagates ==
    /\ (/\ call.op \in {"__element", "element_is_displayed", "click_element",
                        "moveto_and_click_element"}
        /\ NeitherUsable(call.locator, call.element)
        /\ Finished) =>
           /\ result = Raised(UsageError)
           /\ lookups = 0
           /\ interactions = <<>>
    /\ (/\ call.op = "moveto_and_click_element"
        /\ NeitherUsable(call.locator2, call.element2)
        /\ Finished) =>
           /\ result.status = "raised"
           /\ Len(regs) = 1 => result = Raised(UsageError)
           /\ interactions = <<>>

\* C9 witness: element_is_displayed, given neither, ended with the usage error.
C9_Witness ==
    /\ call.op = "element_is_displayed"
    /\ NeitherUsable(call.locator, call.element)
    /\ result = Raised(UsageError)

\* C10: moveto_and_click_element performs nothing on the driver before both
\* targets are resolved: a call that fails has performed no hover and no click,
\* and a call that returns has hovered the first target, then clicked the second.
C10_ResolveBothFirst ==
    call.op = "moveto_and_click_element" =>
        /\ interactions # <<>> => Len(regs) = 2
        /\ result.status = "raised" => interactions = <<>>
        /\ result.status = "returned" =>
               interactions = <<[name |-> "move_to_element", target |-> regs[1].els[1]],
                                [name |-> "click", target |-> regs[2].els[1]]>>

\* C10 witness: the hover target was resolved, the click target timed out, the
\* call failed and nothing was performed.
C10_Witness ==
    /\ call.op = "moveto_and_click_element"
    /\ Len(regs) = 1
    /\ result.status = "raised"
    /\ result.exc.type = "AssertionError"
    /\ result.exc.locator.id = "B"
    /\ interactions = <<>>

\* C11: both child lookups resolve the base first and, when nothing under the
\* base matches the child locator, end with the ElementNotFound failure naming
\* the child locator: neither returns a result.
C11_ChildLookupRaises ==
    (/\ call.op \in ChildOps
     /\ call.locator2.form = "Locator"
     /\ Finished
     /\ Len(regs) >= 1
     /\ dom["C"] = 0) =>
        /\ result.status = "raised"
        /\ result.exc.type = "AssertionError"
        /\ result.exc.locator = call.locator2

\* the interaction each operation on one target performs
InteractionOf(op) ==
    CASE op = "click_element" -> "click"
      [] op = "input_to_element" -> "send_keys"
      [] op = "clear_textbox" -> "clear"
      [] op = "clear_textbox_with_keyboard" -> "send_keys"
      [] op = "moveto_element" -> "move_to_element"
      [] op = "scroll_into_element_center" -> "execute_script"
      [] op = "switch_to_frame" -> "switch_to_frame"

\* C19 as stated: every interaction operation on one target that returns has
\* performed exactly one interaction on the driver, and one that raises has
\* performed none.
C19_ExactlyOneInteraction ==
    call.op \in InteractOps =>
        /\ result.status = "returned" => Len(interactions) = 1
        /\ result.status = "raised" => interactions = <<>>

\* C19 amended: every interaction operation on one target performs nothing before
\* its target is resolved and nothing when the resolution fails; when it returns
\* it has performed its interaction on the resolved target exactly once, except
\* clear_textbox_with_keyboard, which has sent keys to the resolved target
\* exactly twice.
C19_InteractionsOnResolvedTarget ==
    call.op \in InteractOps =>
        LET one == [name |-> InteractionOf(call.op), target |-> regs[1].els[1]]
        IN  /\ interactions # <<>> => (Len(regs) >= 1 /\ regs[1].kind = "element")
            /\ result.status = "raised" => interactions = <<>>
            /\ result.status = "returned" =>
                   interactions = IF call.op = "clear_textbox_with_keyboard"
                                  THEN <<one, one>>
                                  ELSE <<one>>

\* C19 witness: clear_textbox_with_keyboard found its target by locator after
\* waiting and returned, having sent keys to it twice.
C19_Witness ==
    /\ call.op = "clear_textbox_with_keyboard"
    /\ call.element = PyNone
    /\ clock > 0
    /\ result.status = "returned"
    /\ Len(interactions) = 2
    /\ interactions[1].target = Handle("A", 1, TRUE)


\* the search text was typed into the search field, found visible
Typed ==
    /\ Len(interactions) >= 1
    /\ interactions[1].name = "send_keys"
    /\ interactions[1].target.loc = "search_field"

\* the wait for the result cards succeeded
CardsPresent ==
    \E i \in 1..Len(waited) :
        waited[i] = [cond |-> "presence_of_all_elements_located",
                     id |-> "search_result_elements"]

\* C12: input_search_field types into the search field, then waits up to 3
\* time-units for the result cards, then clicks the first card of the list the
\* wait returned, which is never empty; when no card appears in time the call
\* fails with the wait's ElementNotFound failure and no card is clicked.
C12_TypeWaitClickFirst ==
    call.op = "input_search_field" =>
        /\ (lookups > 0 /\ prog # <<>> /\ prog[1].k = "until"
              /\ prog[1].locator.id = "search_result_elements") =>
               (Typed /\ Len(interactions) = 1 /\ prog[1].timeout = 3)
        /\ CardsPresent => Typed
        /\ \A i \in 1..Len(regs) : regs[i].kind = "list" => regs[i].els # <<>>
        /\ Len(interactions) >= 2 =>
               /\ CardsPresent
               /\ \E i \in 1..Len(regs) :
                     /\ regs[i].kind = "list"
                     /\ interactions[2] = [name |-> "click", target |-> regs[i].els[1]]
        /\ Len(interactions) <= 2
        /\ result.status = "returned" => Len(interactions) = 2
        /\ (result.status = "raised" /\ Typed) =>
               /\ Len(interactions) = 1
               /\ ~CardsPresent
               /\ result.exc = Exc("AssertionError", "Cannot find list of present elements",
                                   LocatorTuple("search_result_elements"), 3)

\* C12 witness: the text was typed, no result card appeared within the 3
\* time-units, and the call failed without a click.
C12_Witness ==
    /\ call.op = "input_search_field"
    /\ Typed
    /\ timed_out
    /\ result.status = "raised"
    /\ result.exc.timeout = 3
    /\ Len(interactions) = 1

\* C13 as stated: click_random_stream, when there is no candidate stream card,
\* raises the NoCandidates condition.
C13_NoCandidatesRaised ==
    (call.op = "click_random_stream" /\ Finished /\ ~existed) =>
        /\ result.status = "raised"
        /\ result.exc.type = "NoCandidates"

\* C13 amended: the list click_random_stream chooses from is never empty; with
\* no candidate card within the 3 time-units the call fails with the wait's
\* ElementNotFound failure and performs nothing, and it never fails with
\* NoCandidates or an indexing failure; otherwise it scrolls one member of the
\* list to the center and then clicks that same member.
C13_ChoosesFromWaitedList ==
    call.op = "click_random_stream" =>
        /\ \A i \in 1..Len(regs) : regs[i].kind = "list" => regs[i].els # <<>>
        /\ (Finished /\ ~existed) =>
               /\ result = Raised(Exc("AssertionError", "Cannot find list of present elements",
                                      LocatorTuple("stream_list_elements"), 3))
               /\ interactions = <<>>
        /\ result.status = "raised" =>
               /\ result.exc.type \notin {"NoCandidates", "IndexError"}
               /\ interactions = <<>>
        /\ interactions # <<>> =>
               \E i \in 1..Len(regs) :
                   /\ regs[i].kind = "list"
                   /\ \E j \in 1..Len(regs[i].els) :
                         /\ interactions[1] = [name |-> "execute_script",
                                               target |-> regs[i].els[j]]
                         /\ Len(interactions) >= 2 =>
                                interactions[2] = [name |-> "click", target |-> regs[i].els[j]]
        /\ Len(interactions) <= 2
        /\ result.status = "returned" => Len(interactions) = 2

\* C13 witness: the wait returned more than one card and the card scrolled to
\* and clicked is not the first of them.
C13_Witness ==
    /\ call.op = "click_random_stream"
    /\ result.status = "returned"
    /\ Len(interactions) = 2
    /\ interactions[1].target.idx = 2
    /\ interactions[2].target.idx = 2

\* a wait of wait_video_starting for the live-status indicator is polling
LiveWait(cond) ==
    /\ prog # <<>>
    /\ prog[1].k = "until"
    /\ prog[1].locator.id = "stream_live_label"
    /\ prog[1].cond = cond

LivePresent == [cond |-> "presence_of_element_located", id |-> "stream_live_label"]
LiveVisible == [cond |-> "visibility_of_element_located", id |-> "stream_live_label"]

\* the one click wait_video_starting can perform
ClickStartWatching == [name |-> "click", target |-> Handle("start_watching_button", 1, TRUE)]

\* C14: wait_video_starting probes the start-watching control for 5 time-units
\* and clicks it only if the probe found it displayed, performing no click
\* otherwise; it waits for the live-status indicator to be visible only after
\* the wait for it to be present has succeeded, and it returns normally only
\* when both waits succeeded in that order.
C14_ProbeThenPresentThenVisible ==
    call.op = "wait_video_starting" =>
        /\ (Len(regs) = 1 /\ regs[1].kind = "mark" /\ prog[1].k = "until") =>
               (prog[1].timeout = 5 /\ clock < 5 /\ interactions = <<>>)
        /\ interactions # <<>> =>
               (regs[1] = PyBool(TRUE) /\ interactions = <<ClickStartWatching>>)
        /\ (Len(regs) >= 1 /\ regs[1] = PyBool(FALSE)) =>
               (interactions = <<>> /\ clock >= 5)
        /\ (LiveWait("presence_of_element_located") \/ LiveWait("visibility_of_element_located")) =>
               /\ regs[1].kind = "bool"
               /\ regs[1].b => interactions = <<ClickStartWatching>>
        /\ LiveWait("visibility_of_element_located") =>
               (waited # <<>> /\ waited[Len(waited)] = LivePresent)
        /\ result.status = "returned" =>
               /\ Len(waited) >= 2
               /\ waited[Len(waited) - 1] = LivePresent
               /\ waited[Len(waited)] = LiveVisible
               /\ result.value = PyNone

\* C14 witness: the control was displayed, was clicked, and the call returned
\* after waiting for the indicator.
C14_Witness ==
    /\ call.op = "wait_video_starting"
    /\ result.status = "returned"
    /\ interactions = <<ClickStartWatching>>
    /\ clock > 5

\* C20: whatever the start-watching control does, a failure of
\* wait_video_starting is a failure of one of the two waits for the live-status
\* indicator.
C20_FailsOnlyOnLiveStatus ==
    (call.op = "wait_video_starting" /\ result.status = "raised") =>
        result.exc.locator.id = "stream_live_label"

\* the landmark of scroll_home_screen was found present
LandmarkPresent ==
    waited = <<[cond |-> "presence_of_element_located", id |-> "folow_button"]>>

\* C15: scroll_home_screen(N) waits up to 7 time-units for the landmark, then
\* pauses, then issues exactly N viewport scrolls: nothing is scrolled before the
\* pause has ended, a call that fails has waited the 7 time-units and scrolled
\* nothing, and a call that returns has scrolled N times (not at all for N = 0).
C15_WaitPauseScrollN ==
    call.op = "scroll_home_screen" =>
        /\ (prog # <<>> /\ prog[1].k = "until") =>
               (prog[1].timeout = 7 /\ prog[1].locator.id = "folow_button"
                  /\ clock < 7 /\ interactions = <<>>)
        /\ (prog # <<>> /\ prog[1].k = "sleep") =>
               (LandmarkPresent /\ interactions = <<>>)
        /\ interactions # <<>> => (LandmarkPresent /\ clock >= 2)
        /\ \A i \in 1..Len(interactions) :
               interactions[i] = [name |-> "execute_script", target |-> NoTarget]
        /\ Len(interactions) <= call.times
        /\ result.status = "returned" =>
               (LandmarkPresent /\ Len(interactions) = call.times)
        /\ result.status = "raised" =>
               /\ interactions = <<>>
               /\ clock = 7
               /\ result.exc = Exc("AssertionError", "Cannot find present element",
                                   LocatorTuple("folow_button"), 7)

\* C15 witness: the landmark appeared after some waiting and the call returned
\* after MaxScrolls scrolls.
C15_Witness ==
    /\ call.op = "scroll_home_screen"
    /\ call.times = MaxScrolls
    /\ result.status = "returned"
    /\ Len(interactions) = MaxScrolls
    /\ clock > 2

=============================================================================
